---- MODULE Spec2Model ----
(***************************************************************************)
(* Model of the "Generate a weekly note" command of obsidian-my-agent.      *)
(* Two variants of the plugin are modelled side by side: src/main.ts       *)
(* (refuses to overwrite, no updated-file scan) and src/unnamed/part_000   *)
(* (overwrites, scans updated files, ignore patterns, name format).        *)
(* Strings are sequences of one-character strings.                         *)
(***************************************************************************)
EXTENDS Integers, Sequences, FiniteSets, TLC

(***************************************************************************)
(* String primitives of the JavaScript runtime, as the code uses them.     *)
(***************************************************************************)
\* null and undefined of a string-valued or optional value: the empty sequence
Null == <<>>

StartsWithAt(s, p, i) ==
    /\ i + Len(p) - 1 <= Len(s)
    /\ \A k \in 1..Len(p) : s[i + k - 1] = p[k]

\* String.prototype.startsWith
StartsWith(s, p) == StartsWithAt(s, p, 1)

\* String.prototype.indexOf, 1-based, 0 when absent
IndexOf(s, p) ==
    LET hits == {i \in 1..(Len(s) - Len(p) + 1) : StartsWithAt(s, p, i)}
    IN IF hits = {} THEN 0 ELSE CHOOSE i \in hits : \A j \in hits : i <= j

\* s.replace('lit', 'text') where the replacement holds no '$': first occurrence only
ReplaceFirst(s, p, r) ==
    LET i == IndexOf(s, p)
    IN IF i = 0 THEN s
       ELSE SubSeq(s, 1, i - 1) \o r \o SubSeq(s, i + Len(p), Len(s))

\* s.replace(/lit/g, text): every non-overlapping occurrence, left to right
RECURSIVE ReplaceAll(_, _, _)
ReplaceAll(s, p, r) ==
    LET i == IndexOf(s, p)
    IN IF i = 0 THEN s
       ELSE SubSeq(s, 1, i - 1) \o r \o ReplaceAll(SubSeq(s, i + Len(p), Len(s)), p, r)

\* GetSubstitution of ECMAScript for a string pattern (no capture groups):
\* $$ -> $, $& -> the match, $` -> text before the match, $' -> text after it
RECURSIVE GetSubstitution(_, _, _, _)
GetSubstitution(matched, before, after, repl) ==
    IF repl = <<>> THEN <<>>
    ELSE IF Head(repl) = "$" /\ Len(repl) >= 2 /\ repl[2] \in {"$", "&", "`", "'"}
         THEN (CASE repl[2] = "$" -> <<"$">>
                 [] repl[2] = "&" -> matched
                 [] repl[2] = "`" -> before
                 [] repl[2] = "'" -> after)
              \o GetSubstitution(matched, before, after, SubSeq(repl, 3, Len(repl)))
         ELSE <<Head(repl)>> \o GetSubstitution(matched, before, after, Tail(repl))

\* s.replace(stringPattern, stringReplacement): first occurrence, $-patterns expanded
ReplaceFirstSubst(s, p, repl) ==
    LET i == IndexOf(s, p)
    IN IF i = 0 THEN s
       ELSE LET before == SubSeq(s, 1, i - 1)
                after == SubSeq(s, i + Len(p), Len(s))
            IN before \o GetSubstitution(p, before, after, repl) \o after

WhiteSpace == {" ", "\t", "\n"}

\* String.prototype.trim
RECURSIVE TrimStart(_)
TrimStart(s) == IF s # <<>> /\ Head(s) \in WhiteSpace THEN TrimStart(Tail(s)) ELSE s

RECURSIVE TrimEnd(_)
TrimEnd(s) ==
    IF s # <<>> /\ s[Len(s)] \in WhiteSpace THEN TrimEnd(SubSeq(s, 1, Len(s) - 1)) ELSE s

Trim(s) == TrimEnd(TrimStart(s))

DigitChars == <<"0", "1", "2", "3", "4", "5", "6", "7", "8", "9">>

\* Number.prototype.toString for a non-negative integer
RECURSIVE ToStr(_)
ToStr(n) == IF n < 10 THEN <<DigitChars[n + 1]>> ELSE ToStr(n \div 10) \o <<DigitChars[(n % 10) + 1]>>

\* String.prototype.padStart(width, '0')
RECURSIVE PadStart(_, _)
PadStart(s, width) == IF Len(s) >= width THEN s ELSE PadStart(<<"0">> \o s, width)

\* String.prototype.slice(-2)
SliceLast2(s) == IF Len(s) <= 2 THEN s ELSE SubSeq(s, Len(s) - 1, Len(s))

(***************************************************************************)
(* Date: an instant is a number of clock units since 1970-01-01T00:00Z;    *)
(* UnitsPerDay units make a day.  tz is the local offset in units.         *)
(***************************************************************************)
UnitsPerDay == 8

\* days since the epoch -> [y, m, d] (proleptic Gregorian calendar)
CivilFromDays(z) ==
    LET zz == z + 719468
        era == zz \div 146097
        doe == zz - era * 146097
        yoe == (doe - doe \div 1460 + doe \div 36524 - doe \div 146096) \div 365
        doy == doe - (365 * yoe + yoe \div 4 - yoe \div 100)
        mp == (5 * doy + 2) \div 153
        d == doy - (153 * mp + 2) \div 5 + 1
        m == IF mp < 10 THEN mp + 3 ELSE mp - 9
    IN [y |-> IF m <= 2 THEN yoe + era * 400 + 1 ELSE yoe + era * 400, m |-> m, d |-> d]

\* Date.UTC(y, m, d) in days since the epoch
DaysFromCivil(y, m, d) ==
    LET yy == IF m <= 2 THEN y - 1 ELSE y
        era == yy \div 400
        yoe == yy - era * 400
        mp == (m + 9) % 12
        doy == (153 * mp + 2) \div 5 + d - 1
        doe == yoe * 365 + yoe \div 4 - yoe \div 100 + doy
    IN era * 146097 + doe - 719468

UtcDay(t) == t \div UnitsPerDay
LocalDay(t, zone) == (t + zone) \div UnitsPerDay

\* getUTCDay(): 0 = Sunday; the epoch day was a Thursday
GetUTCDay(t) == (UtcDay(t) + 4) % 7

\* getFullYear(), getMonth() + 1, getDate(): local civil date
LocalCivil(t, zone) == CivilFromDays(LocalDay(t, zone))

\* getWeekNumber: the instant keeps its time of day while it is shifted to the
\* Thursday of its UTC week; Math.ceil of the fractional day count
GetWeekNumber(t) ==
    LET dow == IF GetUTCDay(t) = 0 THEN 7 ELSE GetUTCDay(t)
        d == t + (4 - dow) * UnitsPerDay
        yearStart == DaysFromCivil(CivilFromDays(UtcDay(d)).y, 1, 1) * UnitsPerDay
        num == (d - yearStart) + UnitsPerDay
        den == 7 * UnitsPerDay
    IN (num + den - 1) \div den

(***************************************************************************)
(* formatWeeklyNoteName (part_000 169-193)                                 *)
(***************************************************************************)
\* `__LITERAL_${n}__`
Placeholder(n) ==
    <<"_", "_", "L", "I", "T", "E", "R", "A", "L", "_">> \o ToStr(n) \o <<"_", "_">>

\* position of the first "]" after position i, 0 when there is none
NextClose(s, i) ==
    LET ks == {k \in (i + 1)..Len(s) : s[k] = "]"}
    IN IF ks = {} THEN 0 ELSE CHOOSE k \in ks : \A j \in ks : k <= j

\* start of the leftmost match of /\[([^\]]+)\]/ in s, 0 when there is none
LiteralStart(s) ==
    LET is == {i \in 1..Len(s) : s[i] = "[" /\ NextClose(s, i) > i + 1}
    IN IF is = {} THEN 0 ELSE CHOOSE i \in is : \A j \in is : i <= j

\* result.replace(/\[([^\]]+)\]/g, ...): every literal becomes a placeholder and
\* its inner text is pushed on literals
RECURSIVE ProtectLiterals(_, _)
ProtectLiterals(s, literals) ==
    LET i == LiteralStart(s)
    IN IF i = 0 THEN [result |-> s, literals |-> literals]
       ELSE LET k == NextClose(s, i)
                rest == ProtectLiterals(SubSeq(s, k + 1, Len(s)),
                                        Append(literals, SubSeq(s, i + 1, k - 1)))
            IN [result |-> SubSeq(s, 1, i - 1) \o Placeholder(Len(literals)) \o rest.result,
                literals |-> rest.literals]

\* .replace(/YYYY/g, ..).replace(/YY/g, ..).replace(/WW/g, ..).replace(/W/g, ..)
SubstituteTokens(s, weekNumber, year) ==
    LET s1 == ReplaceAll(s, <<"Y", "Y", "Y", "Y">>, ToStr(year))
        s2 == ReplaceAll(s1, <<"Y", "Y">>, SliceLast2(ToStr(year)))
        s3 == ReplaceAll(s2, <<"W", "W">>, PadStart(ToStr(weekNumber), 2))
    IN ReplaceAll(s3, <<"W">>, ToStr(weekNumber))

\* literals.forEach((literal, index) => result = result.replace(placeholder, literal))
RECURSIVE RestoreLiterals(_, _, _)
RestoreLiterals(s, literals, index) ==
    IF index >= Len(literals) THEN s
    ELSE RestoreLiterals(ReplaceFirstSubst(s, Placeholder(index), literals[index + 1]),
                         literals, index + 1)

formatWeeklyNoteName(format, weekNumber, year) ==
    LET p == ProtectLiterals(format, <<>>)
    IN RestoreLiterals(SubstituteTokens(p.result, weekNumber, year), p.literals, 0)

(***************************************************************************)
(* matchesPattern / shouldIgnoreFile (part_000 395-415)                    *)
(***************************************************************************)
\* the three chained replaces that build the regular expression source
GlobToRegex(pattern) ==
    LET r1 == ReplaceAll(pattern, <<"*", "*">>, <<".", "*">>)
        r2 == ReplaceAll(r1, <<"*">>, <<"[", "^", "/", "]", "*">>)
    IN ReplaceAll(r2, <<".">>, <<"\\", ".">>)

\* the atoms of a regular expression source: an escaped character, the class
\* [^/], the dot, or a plain character, each optionally followed by *
RECURSIVE ParseRegex(_)
ParseRegex(r) ==
    IF r = <<>> THEN <<>>
    ELSE LET a == IF r[1] = "\\" /\ Len(r) >= 2 THEN [kind |-> "lit", ch |-> r[2], len |-> 2]
                  ELSE IF StartsWith(r, <<"[", "^", "/", "]">>)
                       THEN [kind |-> "notslash", ch |-> "/", len |-> 4]
                  ELSE IF r[1] = "." THEN [kind |-> "any", ch |-> ".", len |-> 1]
                  ELSE [kind |-> "lit", ch |-> r[1], len |-> 1]
             star == Len(r) > a.len /\ r[a.len + 1] = "*"
             used == a.len + (IF star THEN 1 ELSE 0)
         IN <<[kind |-> a.kind, ch |-> a.ch, star |-> star]>>
            \o ParseRegex(SubSeq(r, used + 1, Len(r)))

AtomMatches(a, c) ==
    CASE a.kind = "lit" -> c = a.ch
      [] a.kind = "notslash" -> c # "/"
      [] a.kind = "any" -> c # "\n"

\* atoms[i..] match s[j..] up to the end of s
RECURSIVE MatchFrom(_, _, _, _)
MatchFrom(atoms, i, s, j) ==
    IF i > Len(atoms) THEN j > Len(s)
    ELSE IF atoms[i].star
         THEN \/ MatchFrom(atoms, i + 1, s, j)
              \/ (j <= Len(s) /\ AtomMatches(atoms[i], s[j]) /\ MatchFrom(atoms, i, s, j + 1))
         ELSE j <= Len(s) /\ AtomMatches(atoms[i], s[j]) /\ MatchFrom(atoms, i + 1, s, j + 1)

\* new RegExp(`^${source}$`).test(s)
RegexTestAnchored(source, s) == MatchFrom(ParseRegex(source), 1, s, 1)

matchesPattern(filePath, pattern) == RegexTestAnchored(GlobToRegex(pattern), filePath)

shouldIgnoreFile(patterns, filePath) ==
    \E n \in 1..Len(patterns) : matchesPattern(filePath, patterns[n])

(***************************************************************************)
(* Daily-note path derivation (part_000 233-260, 281-300)                  *)
(***************************************************************************)
DefaultDailyFormat == <<"Y", "Y", "Y", "Y", "-", "M", "M", "-", "D", "D">>
MdExt == <<".", "m", "d">>
YearSlot == <<"{", "y", "e", "a", "r", "}">>
MonthSlot == <<"{", "m", "o", "n", "t", "h", "}">>
DaySlot == <<"{", "d", "a", "y", "}">>
MonthNameSlot == <<"{", "m", "o", "n", "t", "h", "N", "a", "m", "e", "}">>
MonthShortSlot == <<"{", "m", "o", "n", "t", "h", "S", "h", "o", "r", "t", "}">>

\* dailyNotesSettings.folder || ''  and  dailyNotesSettings.format || 'YYYY-MM-DD'
DailyFolder(ds) == ds.folder
DailyFormat(ds) == IF ds.format = <<>> THEN DefaultDailyFormat ELSE ds.format

\* the five chained first-occurrence replaces on the format
TranslateFormat(format) ==
    LET f1 == ReplaceFirst(format, <<"Y", "Y", "Y", "Y">>, YearSlot)
        f2 == ReplaceFirst(f1, <<"M", "M">>, MonthSlot)
        f3 == ReplaceFirst(f2, <<"D", "D">>, DaySlot)
        f4 == ReplaceFirst(f3, <<"M", "M", "M", "M">>, MonthNameSlot)
    IN ReplaceFirst(f4, <<"M", "M", "M">>, MonthShortSlot)

PathPattern(folder, dateFormat) ==
    IF folder # <<>> THEN folder \o <<"/">> \o dateFormat \o MdExt ELSE dateFormat \o MdExt

YearStr(c) == ToStr(c.y)
MonthStr(c) == PadStart(ToStr(c.m), 2)
DayStr(c) == PadStart(ToStr(c.d), 2)

\* pathPattern.replace('{year}', year).replace('{month}', month).replace('{day}', day)
DailyNotePath(pathPattern, c) ==
    ReplaceFirstSubst(
        ReplaceFirstSubst(ReplaceFirstSubst(pathPattern, YearSlot, YearStr(c)),
                          MonthSlot, MonthStr(c)),
        DaySlot, DayStr(c))

\* the civil date of loop index i: date.setDate(today.getDate() - i)
DayOfWindow(today, zone, i) == CivilFromDays(LocalDay(today, zone) - i)

IsDigit(c) == \E n \in 1..10 : DigitChars[n] = c

\* fileName.match(/(\d{4}-\d{2}-\d{2})/): the first match, Null when none
MatchIsoDate(s) ==
    LET ok(i) == /\ i + 9 <= Len(s)
                 /\ \A k \in {0, 1, 2, 3, 5, 6, 8, 9} : IsDigit(s[i + k])
                 /\ s[i + 4] = "-" /\ s[i + 7] = "-"
        hits == {i \in 1..Len(s) : ok(i)}
    IN IF hits = {} THEN Null
       ELSE LET i == CHOOSE i \in hits : \A j \in hits : i <= j IN SubSeq(s, i, i + 9)

EndsWith(s, p) == Len(s) >= Len(p) /\ SubSeq(s, Len(s) - Len(p) + 1, Len(s)) = p

extractDateFromFilePath(filePath, folder, format) ==
    LET stem == IF EndsWith(filePath, MdExt) THEN SubSeq(filePath, 1, Len(filePath) - 3)
                ELSE filePath
        fileName == IF folder # <<>> THEN ReplaceFirst(stem, folder \o <<"/">>, <<>>) ELSE stem
    IN IF format = DefaultDailyFormat THEN MatchIsoDate(fileName) ELSE fileName

\* actualDate || `${year}-${month}-${day}`
DateLabel(filePath, folder, format, c) ==
    LET actual == extractDateFromFilePath(filePath, folder, format)
    IN IF actual = Null
       THEN YearStr(c) \o <<"-">> \o MonthStr(c) \o <<"-">> \o DayStr(c)
       ELSE actual

(***************************************************************************)
(* Aggregate-note name and path (main.ts 105-126, part_000 110-136)        *)
(***************************************************************************)
DefaultWeeklyFolder == <<"W", "e", "e", "k", "l", "y">>

\* weekly.folder, else weekly.path, else 'Weekly'
WeeklyFolder(ps) ==
    IF ps.folder # <<>> THEN ps.folder
    ELSE IF ps.path # <<>> THEN ps.path
    ELSE DefaultWeeklyFolder

\* `${year}-W${weekNumber.toString().padStart(2, '0')}`
DefaultFileName(weekNumber, year) ==
    ToStr(year) \o <<"-", "W">> \o PadStart(ToStr(weekNumber), 2)

\* now.getFullYear() is the local year, getWeekNumber(now) works on the UTC fields
WeeklyFileName(v, ps, t, zone) ==
    LET weekNumber == GetWeekNumber(t)
        year == LocalCivil(t, zone).y
    IN IF v = "part0" /\ ps.format # <<>>
       THEN formatWeeklyNoteName(ps.format, weekNumber, year)
       ELSE DefaultFileName(weekNumber, year)

WeeklyFilePath(weeklyFolder, fileName) ==
    IF weeklyFolder # <<>> THEN weeklyFolder \o <<"/">> \o fileName \o MdExt
    ELSE fileName \o MdExt

(***************************************************************************)
(* Updated-file records (part_000 338-393)                                 *)
(***************************************************************************)
\* new Date(mtime).toLocaleDateString('ja-JP'): local "Y/M/D", no padding
ToLocaleDateString(t, zone) ==
    LET c == LocalCivil(t, zone)
    IN ToStr(c.y) \o <<"/">> \o ToStr(c.m) \o <<"/">> \o ToStr(c.d)

RECURSIVE ParseInt(_)
ParseInt(s) ==
    IF s = <<>> THEN 0
    ELSE 10 * ParseInt(SubSeq(s, 1, Len(s) - 1))
         + (CHOOSE n \in 0..9 : DigitChars[n + 1] = s[Len(s)])

\* new Date("Y/M/D").getTime(): local midnight of that date
ParseLocalDate(s, zone) ==
    LET i == IndexOf(s, <<"/">>)
        rest == SubSeq(s, i + 1, Len(s))
        j == IndexOf(rest, <<"/">>)
        y == ParseInt(SubSeq(s, 1, i - 1))
        m == ParseInt(SubSeq(rest, 1, j - 1))
        d == ParseInt(SubSeq(rest, j + 1, Len(rest)))
    IN DaysFromCivil(y, m, d) * UnitsPerDay - zone

\* TFile.basename: the last path segment without its extension
Basename(path) ==
    LET slashes == {i \in 1..Len(path) : path[i] = "/"}
        start == IF slashes = {} THEN 1
                 ELSE 1 + CHOOSE i \in slashes : \A j \in slashes : i >= j
        name == SubSeq(path, start, Len(path))
        dots == {i \in 2..Len(name) : name[i] = "."}
    IN IF dots = {} THEN name
       ELSE SubSeq(name, 1, (CHOOSE i \in dots : \A j \in dots : i >= j) - 1)

\* the comparator of the final sort: dateB - dateA on the parsed modifiedDate
SortKey(rec, zone) == ParseLocalDate(rec.modifiedDate, zone)

\* Array.prototype.sort is stable: insert behind every record that does not
\* compare after rec
RECURSIVE InsertSorted(_, _, _)
InsertSorted(sorted, rec, zone) ==
    IF sorted = <<>> THEN <<rec>>
    ELSE IF SortKey(rec, zone) > SortKey(Head(sorted), zone) THEN <<rec>> \o sorted
    ELSE <<Head(sorted)>> \o InsertSorted(Tail(sorted), rec, zone)

RECURSIVE SortUpdated(_, _)
SortUpdated(recs, zone) ==
    IF recs = <<>> THEN <<>>
    ELSE InsertSorted(SortUpdated(SubSeq(recs, 1, Len(recs) - 1), zone), recs[Len(recs)], zone)

(***************************************************************************)
(* State of the plugin, the vault and the host configuration.              *)
(***************************************************************************)
VARIABLES
    variant,           \* "main" (src/main.ts) or "part0" (src/unnamed/part_000)
    now,               \* the clock, in units since the epoch
    tz,                \* local offset from UTC, in units
    settings,          \* this.settings: [openaiApiKey, ignoreFilePatterns]
    openai,            \* this.openai: Null, or the client, named by the key it was built with
    saving,            \* saveSettings calls suspended at saveData
    dailySettings,     \* getDailyNotesSettings(): [found, folder, format]
    periodicSettings,  \* periodic-notes weekly settings: [format, folder, path], empty when absent
    files,             \* the vault's markdown files in enumeration order: [path, content, mtime]
    folders,           \* the vault's folders
    run,               \* the activations of generateWeeklyNote
    call,              \* <<arguments>> of a pure function under check, <<>> otherwise
    ret                \* <<result>>, <<>> before the call

vars == <<variant, now, tz, settings, openai, saving, dailySettings, periodicSettings,
          files, folders, run, call, ret>>

MaxRuns == 2
Runs == 1..MaxRuns

\* app.vault.getAbstractFileByPath(path) instanceof TFile: index in files, 0 otherwise
FileIndex(fs, path) ==
    LET hits == {n \in 1..Len(fs) : fs[n].path = path}
    IN IF hits = {} THEN 0 ELSE CHOOSE n \in hits : TRUE

\* app.vault.getAbstractFileByPath(path) is non-null
PathExists(fs, ds, path) == FileIndex(fs, path) # 0 \/ path \in ds

\* initializeOpenAI: the client of the given settings
initializeOpenAI(st) ==
    IF st.openaiApiKey # <<>> /\ Trim(st.openaiApiKey) # <<>>
    THEN st.openaiApiKey
    ELSE Null

IdleRun ==
    [pc |-> "idle", today |-> 0, i |-> 0, dailyNotes |-> <<>>, allFiles |-> <<>>, k |-> 0,
     cutoff |-> 0, updatedFiles |-> <<>>, client |-> Null, summary |-> <<>>, at |-> 0,
     fileName |-> <<>>, filePath |-> <<>>, notices |-> <<>>, io |-> <<>>,
     startClient |-> Null, startPatterns |-> <<>>, readPatterns |-> <<>>]

InFlight(r) == run[r].pc \notin {"idle", "done"}

\* for (let i = 0; i < 7; i++)
WindowDays == 7

\* the path of the daily note of loop index i
PathOfIndex(today, i) ==
    DailyNotePath(PathPattern(DailyFolder(dailySettings),
                              TranslateFormat(DailyFormat(dailySettings))),
                  DayOfWindow(today, tz, i))

\* the loop of getDailyNotesForLastWeek runs on without suspending until it meets
\* a day whose note exists: the first such index from `from`, WindowDays when
\* there is none
NextExisting(today, from) ==
    LET js == {j \in from..(WindowDays - 1) : FileIndex(files, PathOfIndex(today, j)) # 0}
    IN IF js = {} THEN WindowDays ELSE CHOOSE j \in js : \A n \in js : j <= n

RECURSIVE Reverse(_)
Reverse(s) == IF s = <<>> THEN <<>> ELSE Append(Reverse(Tail(s)), Head(s))

\* a return without the reverse: newest first
ReturnDailyNewestFirst(notes) == notes

\* the return of getDailyNotesForLastWeek
ReturnDaily(notes) == Reverse(notes)

\* the loop of getDailyNotesForLastWeek from index `from` up to its next suspension
ContinueDaily(rr, from) ==
    LET j == NextExisting(rr.today, from)
    IN IF j = WindowDays
       THEN [rr EXCEPT !.pc = "dailyDone", !.i = WindowDays, !.dailyNotes = ReturnDaily(rr.dailyNotes)]
       ELSE [rr EXCEPT !.pc = "read", !.i = j]

\* the command callback: generateWeeklyNote up to its first suspension
Trigger(r) ==
    /\ run[r].pc = "idle"
    /\ run' = [run EXCEPT ![r] =
         IF openai = Null
         THEN [@ EXCEPT !.pc = "done", !.notices = <<"noKey">>]
         ELSE LET started == [@ EXCEPT !.today = now, !.notices = <<"loading">>,
                                       !.startClient = openai,
                                       !.startPatterns = settings.ignoreFilePatterns]
              IN IF ~dailySettings.found
                 THEN [started EXCEPT !.pc = "dailyDone",
                                      !.notices = Append(@, "noDailySettings")]
                 ELSE ContinueDaily(started, 0)]
    /\ UNCHANGED <<variant, now, tz, settings, openai, saving, dailySettings,
                   periodicSettings, files, folders, call, ret>>

\* vault.read(file) resolves: the record is pushed when the trimmed content is
\* non-empty, and the loop goes on
DailyRead(r) ==
    /\ run[r].pc = "read"
    /\ LET rr == run[r]
           path == PathOfIndex(rr.today, rr.i)
           content == files[FileIndex(files, path)].content
           c == DayOfWindow(rr.today, tz, rr.i)
           rec == [date |-> DateLabel(path, DailyFolder(dailySettings),
                                      DailyFormat(dailySettings), c),
                   content |-> content]
           pushed == [rr EXCEPT !.io = Append(@, "read"),
                                !.dailyNotes = IF Trim(content) # <<>> THEN Append(@, rec)
                                               ELSE @]
       IN run' = [run EXCEPT ![r] = ContinueDaily(pushed, rr.i + 1)]
    /\ UNCHANGED <<variant, now, tz, settings, openai, saving, dailySettings,
                   periodicSettings, files, folders, call, ret>>

\* an exclusion that forgets the weekly folder
ShouldExcludeDailyOnly(path) ==
    LET dailyNotesFolder == DailyFolder(dailySettings)
    IN dailyNotesFolder # <<>> /\ StartsWith(path, dailyNotesFolder \o <<"/">>)

\* shouldExclude: the daily-notes folder and the weekly folder of the scan
ShouldExclude(path) ==
    LET dailyNotesFolder == DailyFolder(dailySettings)
        weeklyFolder == WeeklyFolder(periodicSettings)
    IN \/ (dailyNotesFolder # <<>> /\ StartsWith(path, dailyNotesFolder \o <<"/">>))
       \/ (weeklyFolder # <<>> /\ StartsWith(path, weeklyFolder \o <<"/">>))

UpdatedRecord(path, mtime) ==
    [path |-> path, name |-> Basename(path), modifiedDate |-> ToLocaleDateString(mtime, tz)]

\* the return of getUpdatedFilesForLastWeek: the sort
ReturnUpdated(recs) == SortUpdated(recs, tz)

\* generateSummaryWithOpenAI reads this.openai when it is called: a null client
\* throws, which the catch of generateWeeklyNote reports
StartSummarize(rr) ==
    LET told == [rr EXCEPT !.notices = Append(@, "generating")]
    IN IF openai = Null
       THEN [told EXCEPT !.pc = "done", !.notices = Append(@, "error")]
       ELSE [told EXCEPT !.pc = "summarize", !.client = openai, !.io = Append(@, "remote")]

\* getDailyNotesForLastWeek has returned
AfterDaily(r) ==
    /\ run[r].pc = "dailyDone"
    /\ run' = [run EXCEPT ![r] =
         IF Len(@.dailyNotes) = 0
         THEN [@ EXCEPT !.pc = "done", !.notices = Append(@, "noDailyNotes")]
         ELSE IF variant = "main"
         THEN StartSummarize(@)
         ELSE LET all == [n \in 1..Len(files) |-> files[n].path]
                  scan == [@ EXCEPT !.notices = Append(@, "searching"),
                                    !.cutoff = now - 7 * UnitsPerDay,
                                    !.allFiles = all, !.k = 1, !.updatedFiles = <<>>]
              IN IF all = <<>>
                 THEN [scan EXCEPT !.pc = "scanDone"]
                 ELSE [scan EXCEPT !.pc = "stat"]]
    /\ UNCHANGED <<variant, now, tz, settings, openai, saving, dailySettings,
                   periodicSettings, files, folders, call, ret>>

\* adapter.stat(file.path) resolves for allFiles[k]: the filters are applied with
\* the settings as they are now, and the loop goes on to the next stat
ScanStat(r) ==
    /\ run[r].pc = "stat"
    /\ LET rr == run[r]
           path == rr.allFiles[rr.k]
           mtime == files[FileIndex(files, path)].mtime
           recent == mtime > rr.cutoff
           keep == recent /\ ~ShouldExclude(path)
                          /\ ~shouldIgnoreFile(settings.ignoreFilePatterns, path)
           seen == [rr EXCEPT !.io = Append(@, "stat"),
                              !.readPatterns = IF recent THEN <<settings.ignoreFilePatterns>>
                                               ELSE @,
                              !.updatedFiles = IF keep THEN Append(@, UpdatedRecord(path, mtime))
                                               ELSE @]
       IN run' = [run EXCEPT ![r] =
            IF rr.k = Len(rr.allFiles)
            THEN [seen EXCEPT !.pc = "scanDone", !.updatedFiles = ReturnUpdated(@)]
            ELSE [seen EXCEPT !.k = rr.k + 1]]
    /\ UNCHANGED <<variant, now, tz, settings, openai, saving, dailySettings,
                   periodicSettings, files, folders, call, ret>>

\* getUpdatedFilesForLastWeek has returned
AfterScan(r) ==
    /\ run[r].pc = "scanDone"
    /\ run' = [run EXCEPT ![r] = StartSummarize(@)]
    /\ UNCHANGED <<variant, now, tz, settings, openai, saving, dailySettings,
                   periodicSettings, files, folders, call, ret>>

SummaryFallback == <<"summary-fallback">>

RECURSIVE UpdatedLines(_)
UpdatedLines(recs) ==
    IF recs = <<>> THEN <<>>
    ELSE <<"- [[">> \o Head(recs).name \o <<"]] (">> \o Head(recs).modifiedDate \o <<")\n">>
         \o UpdatedLines(Tail(recs))

\* `${summary}${updatedFilesSection}` in part_000, `${summary}` in main.ts
WeeklyNoteContent(rr) ==
    IF variant = "main" THEN rr.summary
    ELSE rr.summary \o <<"\n\n## Files Updated This Week\n\n">>
         \o (IF Len(rr.updatedFiles) > 0 THEN UpdatedLines(rr.updatedFiles) ELSE <<"None\n">>)

\* createWeeklyNoteFile from the existence check on: main.ts refuses an existing
\* file and generateWeeklyNote then reports success; part_000 modifies it
WriteDecision(rr) ==
    IF FileIndex(files, rr.filePath) # 0
    THEN IF variant = "main"
         THEN [rr EXCEPT !.pc = "done", !.notices = @ \o <<"exists", "success">>]
         ELSE [rr EXCEPT !.pc = "modify", !.io = Append(@, "modify")]
    ELSE [rr EXCEPT !.pc = "create", !.io = Append(@, "create")]

\* the remote call resolves with `text` (empty: no content in the response);
\* createWeeklyNoteFile resolves the name and the path and runs to its first await
SummarizeOk(r, text) ==
    /\ run[r].pc = "summarize"
    /\ LET weeklyFolder == WeeklyFolder(periodicSettings)
           fileName == WeeklyFileName(variant, periodicSettings, now, tz)
           named == [run[r] EXCEPT !.summary = IF text = <<>> THEN SummaryFallback ELSE text,
                                   !.at = now,
                                   !.fileName = fileName,
                                   !.filePath = WeeklyFilePath(weeklyFolder, fileName)]
       IN run' = [run EXCEPT ![r] =
            IF weeklyFolder # <<>> /\ ~PathExists(files, folders, weeklyFolder)
            THEN [named EXCEPT !.pc = "mkdir", !.io = Append(@, "createFolder")]
            ELSE WriteDecision(named)]
    /\ UNCHANGED <<variant, now, tz, settings, openai, saving, dailySettings,
                   periodicSettings, files, folders, call, ret>>

\* a catch that writes a note holding the fallback text before it reports the error
SummarizeFailWritesNote(r) ==
    /\ run[r].pc = "summarize"
    /\ run' = [run EXCEPT ![r].pc = "done", ![r].notices = Append(@, "error")]
    /\ files' = Append(files, [path |-> WeeklyFilePath(WeeklyFolder(periodicSettings),
                                        WeeklyFileName(variant, periodicSettings, now, tz)),
                               content |-> SummaryFallback, mtime |-> now])
    /\ UNCHANGED <<variant, now, tz, settings, openai, saving, dailySettings,
                   periodicSettings, folders, call, ret>>

\* the remote call rejects: the catch reports the error
SummarizeFail(r) ==
    /\ run[r].pc = "summarize"
    /\ run' = [run EXCEPT ![r].pc = "done", ![r].notices = Append(@, "error")]
    /\ UNCHANGED <<variant, now, tz, settings, openai, saving, dailySettings,
                   periodicSettings, files, folders, call, ret>>

\* vault.createFolder resolves, or rejects when the folder exists by now
FolderCreated(r) ==
    /\ run[r].pc = "mkdir"
    /\ LET weeklyFolder == WeeklyFolder(periodicSettings)
       IN IF PathExists(files, folders, weeklyFolder)
          THEN /\ run' = [run EXCEPT ![r].pc = "done", ![r].notices = Append(@, "error")]
               /\ UNCHANGED folders
          ELSE /\ folders' = folders \cup {weeklyFolder}
               /\ run' = [run EXCEPT ![r] = WriteDecision(@)]
    /\ UNCHANGED <<variant, now, tz, settings, openai, saving, dailySettings,
                   periodicSettings, files, call, ret>>

\* vault.create / vault.modify resolves; create rejects when the path exists by now
WriteDone(r) ==
    /\ run[r].pc \in {"create", "modify"}
    /\ LET rr == run[r]
           n == FileIndex(files, rr.filePath)
           content == WeeklyNoteContent(rr)
       IN IF rr.pc = "modify"
          THEN /\ files' = [files EXCEPT ![n].content = content, ![n].mtime = now]
               /\ run' = [run EXCEPT ![r].pc = "done", ![r].notices = Append(@, "updated")]
          ELSE IF n # 0
          THEN /\ run' = [run EXCEPT ![r].pc = "done", ![r].notices = Append(@, "error")]
               /\ UNCHANGED files
          ELSE /\ files' = Append(files, [path |-> rr.filePath, content |-> content,
                                          mtime |-> now])
               /\ run' = [run EXCEPT ![r].pc = "done",
                                     ![r].notices = Append(@, IF variant = "main" THEN "success"
                                                              ELSE "created")]
    /\ UNCHANGED <<variant, now, tz, settings, openai, saving, dailySettings,
                   periodicSettings, folders, call, ret>>

(***************************************************************************)
(* The settings tab: each edit assigns the field, then awaits saveData,    *)
(* then re-derives the client.                                             *)
(***************************************************************************)
MaxSaving == 1
MaxPatterns == 1
Keys == {<<>>, <<" ">>, <<"s">>}
PatternTexts == {<<>>, <<"*">>}

\* onChange of the API key field, up to the await in saveSettings
EditKey(value) ==
    /\ saving < MaxSaving
    /\ value # settings.openaiApiKey
    /\ settings' = [settings EXCEPT !.openaiApiKey = value]
    /\ saving' = saving + 1
    /\ UNCHANGED <<variant, now, tz, openai, dailySettings, periodicSettings,
                   files, folders, run, call, ret>>

\* onChange of the field of pattern `index`, up to the await in saveSettings
EditPattern(index, value) ==
    /\ variant = "part0"
    /\ saving < MaxSaving
    /\ index \in 1..Len(settings.ignoreFilePatterns)
    /\ value # settings.ignoreFilePatterns[index]
    /\ settings' = [settings EXCEPT !.ignoreFilePatterns[index] = value]
    /\ saving' = saving + 1
    /\ UNCHANGED <<variant, now, tz, openai, dailySettings, periodicSettings,
                   files, folders, run, call, ret>>

\* onClick of Add, up to the await in saveSettings
AddPattern ==
    /\ variant = "part0"
    /\ saving < MaxSaving
    /\ Len(settings.ignoreFilePatterns) < MaxPatterns
    /\ settings' = [settings EXCEPT !.ignoreFilePatterns = Append(@, <<>>)]
    /\ saving' = saving + 1
    /\ UNCHANGED <<variant, now, tz, openai, dailySettings, periodicSettings,
                   files, folders, run, call, ret>>

\* onClick of Delete of pattern `index`, up to the await in saveSettings
DeletePattern(index) ==
    /\ variant = "part0"
    /\ saving < MaxSaving
    /\ index \in 1..Len(settings.ignoreFilePatterns)
    /\ settings' = [settings EXCEPT !.ignoreFilePatterns =
                      SubSeq(@, 1, index - 1) \o SubSeq(@, index + 1, Len(@))]
    /\ saving' = saving + 1
    /\ UNCHANGED <<variant, now, tz, openai, dailySettings, periodicSettings,
                   files, folders, run, call, ret>>

\* saveData resolves: saveSettings goes on to initializeOpenAI
SaveDone ==
    /\ saving > 0
    /\ saving' = saving - 1
    /\ openai' = initializeOpenAI(settings)
    /\ UNCHANGED <<variant, now, tz, settings, dailySettings, periodicSettings,
                   files, folders, run, call, ret>>

(***************************************************************************)
(* Spec: the command and the settings tab on one event loop.               *)
(***************************************************************************)
\* 2025-06-02 (a Monday) 12:00 UTC
Noon == DaysFromCivil(2025, 6, 2) * UnitsPerDay + UnitsPerDay \div 2

NoPeriodic == [format |-> <<>>, folder |-> <<>>, path |-> <<>>]
RootDaily == [found |-> TRUE, folder |-> <<>>, format |-> <<>>]

\* the daily note of the local day of instant t under settings ds
DailyNoteAt(ds, t, zone, content) ==
    [path |-> DailyNotePath(PathPattern(DailyFolder(ds), TranslateFormat(DailyFormat(ds))),
                            CivilFromDays(LocalDay(t, zone))),
     content |-> content, mtime |-> t]

Texts == {<<"S">>, <<>>}

Init ==
    /\ variant \in {"main", "part0"}
    /\ now = Noon /\ tz = 0
    /\ settings \in [openaiApiKey : Keys, ignoreFilePatterns : {<<>>, <<<<"*">>>>}]
    /\ openai = initializeOpenAI(settings)
    /\ saving = 0
    /\ dailySettings = RootDaily
    /\ periodicSettings = NoPeriodic
    /\ files = <<DailyNoteAt(RootDaily, Noon, 0, <<"x">>)>>
    /\ folders = {}
    /\ run = [r \in Runs |-> IdleRun]
    /\ call = <<>> /\ ret = <<>>

RunStep(r) ==
    \/ DailyRead(r)
    \/ AfterDaily(r)
    \/ ScanStat(r)
    \/ AfterScan(r)
    \/ \E text \in Texts : SummarizeOk(r, text)
    \/ SummarizeFail(r)
    \/ FolderCreated(r)
    \/ WriteDone(r)

Edit ==
    \/ \E value \in Keys : EditKey(value)
    \/ \E index \in 1..MaxPatterns, value \in PatternTexts : EditPattern(index, value)
    \/ AddPattern
    \/ \E index \in 1..MaxPatterns : DeletePattern(index)
    \/ SaveDone

Next ==
    \/ \E r \in Runs : Trigger(r) \/ RunStep(r)
    \/ Edit

Spec == Init /\ [][Next]_vars
(***************************************************************************)
(* SpecRuns: the command alone, triggered at any time, the settings tab    *)
(* closed.                                                                 *)
(***************************************************************************)
NextRuns == \E r \in Runs : Trigger(r) \/ RunStep(r)

SpecRuns == Init /\ [][NextRuns]_vars

(***************************************************************************)
(* Claims about the runs and the settings tab.                             *)
(***************************************************************************)
Last(q) == q[Len(q)]
StoreOps == {"createFolder", "create", "modify"}
OpsOf(r) == {run[r].io[n] : n \in 1..Len(run[r].io)}

\* C1: when the remote summarization call of a run fails, that step and the
\* whole run create no folder and create or modify no file, and the run ends
\* with the error notification.
C1_NoWriteOnServiceError ==
    /\ [](\A r \in Runs : run[r].pc \in {"read", "dailyDone", "stat", "scanDone", "summarize"}
                          => OpsOf(r) \cap StoreOps = {})
    /\ [][\A r \in Runs :
            (run[r].pc = "summarize" /\ run'[r].pc = "done" /\ run'[r].summary = <<>>)
            => /\ files' = files
               /\ folders' = folders
               /\ run'[r].io = run[r].io
               /\ run'[r].notices = Append(run[r].notices, "error")]_vars

\* C1 witness: a run whose remote call was made and failed has ended
C1_Witness ==
    \E r \in Runs : /\ run[r].pc = "done"
                    /\ run[r].io # <<>> /\ Last(run[r].io) = "remote"
                    /\ run[r].summary = <<>>
                    /\ Last(run[r].notices) = "error"

\* C2: a command triggered while the configured API key is blank after trimming
\* reports the missing key and does no I/O; that is, whenever a trigger can
\* occur the client is non-null only if the key is non-blank.
C2_BlankKeyRefused ==
    [][\A r \in Runs :
         (run[r].pc = "idle" /\ run'[r].pc # "idle" /\ Trim(settings.openaiApiKey) = <<>>)
         => /\ run'[r].pc = "done"
            /\ run'[r].notices = <<"noKey">>
            /\ run'[r].io = <<>>]_vars

\* C3: no two runs of generateWeeklyNote are in flight at the same time.
C3_OneRunAtATime == Cardinality({r \in Runs : InFlight(r)}) <= 1

\* C4: a run makes its summarization call with the client it was started with,
\* and its scan applies the ignore patterns it was started with.
C4_RunUsesStartConfiguration ==
    \A r \in Runs :
        /\ (\E n \in 1..Len(run[r].notices) : run[r].notices[n] = "generating")
           => run[r].client = run[r].startClient
        /\ run[r].readPatterns # <<>> => run[r].readPatterns = <<run[r].startPatterns>>
(***************************************************************************)
(* SpecTwice: runs one after another while the clock advances, with the    *)
(* configuration left alone.                                               *)
(***************************************************************************)
MaxTicks == 3
TimeZones == {-3, 0, 3}

\* 2025-06-01 (a Sunday) 18:00 UTC
Evening == DaysFromCivil(2025, 6, 1) * UnitsPerDay + (3 * UnitsPerDay) \div 4

Tick ==
    /\ now < Evening + MaxTicks
    /\ now' = now + 1
    /\ UNCHANGED <<variant, tz, settings, openai, saving, dailySettings, periodicSettings,
                   files, folders, run, call, ret>>

\* the command is triggered when no run is outstanding
TriggerAlone(r) ==
    /\ \A q \in Runs : ~InFlight(q)
    /\ Trigger(r)

InitTwice ==
    /\ variant \in {"main", "part0"}
    /\ now = Evening /\ tz \in TimeZones
    /\ settings = [openaiApiKey |-> <<"s">>, ignoreFilePatterns |-> <<>>]
    /\ openai = initializeOpenAI(settings)
    /\ saving = 0
    /\ dailySettings = RootDaily
    /\ periodicSettings = NoPeriodic
    /\ files = <<DailyNoteAt(RootDaily, Evening, tz, <<"x">>)>>
    /\ folders = {}
    /\ run = [r \in Runs |-> IdleRun]
    /\ call = <<>> /\ ret = <<>>

NextTwice ==
    \/ \E r \in Runs : TriggerAlone(r) \/ RunStep(r)
    \/ Tick

SpecTwice == InitTwice /\ [][NextTwice]_vars

Resolved(r) == run[r].pc = "done" /\ run[r].fileName # <<>>
FilesAt(path) == {n \in 1..Len(files) : files[n].path = path}

\* C5: two runs in succession on the same calendar day resolve the same path,
\* after which exactly one note exists there: the first run created it, and the
\* second refused (main.ts) or modified it in place (part_000).
C5_SameDaySamePath ==
    \A a, b \in Runs :
        (a # b /\ Resolved(a) /\ Resolved(b)
              /\ LocalDay(run[a].at, tz) = LocalDay(run[b].at, tz))
        => /\ run[a].filePath = run[b].filePath
           /\ Cardinality(FilesAt(run[a].filePath)) = 1
           /\ \E f, g \in {a, b} :
                /\ f # g
                /\ "create" \in OpsOf(f)
                /\ variant = "main" => ("exists" \in {run[g].notices[n] : n \in 1..Len(run[g].notices)}
                                        /\ OpsOf(g) \cap StoreOps = {})
                /\ variant = "part0" => ("modify" \in OpsOf(g) /\ "create" \notin OpsOf(g))

\* the notices that tell how a run of main.ts ended for the store
StoreNotices == {"success", "exists", "error"}
NoticesOf(r) == {run[r].notices[n] : n \in 1..Len(run[r].notices)}

\* C13: in main.ts a finished run shows the success notice only if that run
\* created the aggregate note, and a run that found the destination existing and
\* refused shows no success notice: at most one of success / exists / error.
C13_SuccessOnlyIfCreated ==
    variant = "main" =>
        \A r \in Runs :
            run[r].pc = "done" =>
                /\ "success" \in NoticesOf(r) =>
                       ("create" \in OpsOf(r) /\ FilesAt(run[r].filePath) # {})
                /\ "exists" \in NoticesOf(r) => "success" \notin NoticesOf(r)
                /\ Cardinality(NoticesOf(r) \cap StoreNotices) <= 1

(***************************************************************************)
(* SpecGlob: matchesPattern on patterns and paths over a small alphabet.   *)
(***************************************************************************)
MaxGlobLen == 3
MaxPathLen == 3

RECURSIVE StringsOver(_, _)
StringsOver(alphabet, n) ==
    IF n = 0 THEN {<<>>}
    ELSE LET shorter == StringsOver(alphabet, n - 1)
         IN shorter \cup {Append(w, c) : w \in shorter, c \in alphabet}

GlobExamples ==
    {[pattern |-> <<"*", "*", "/", "*", ".", "t", "m", "p">>,
      path |-> <<"a", "/", "b", "/", "c", ".", "t", "m", "p">>],
     [pattern |-> <<"*", ".", "t", "m", "p">>,
      path |-> <<"a", "/", "b", "/", "c", ".", "t", "m", "p">>],
     [pattern |-> <<"A", "r", "c", "h", "i", "v", "e", "/", "*", "*">>,
      path |-> <<"A", "r", "c", "h", "i", "v", "e", "/", "2", "0", "2", "4", "/",
                 "n", "o", "t", "e", ".", "m", "d">>]}

GlobInputs ==
    GlobExamples \cup [pattern : StringsOver({"a", ".", "/", "*"}, MaxGlobLen),
                       path : StringsOver({"a", ".", "/"}, MaxPathLen)]

\* the configuration, vault and runs of a specification that checks a pure function
Quiet ==
    /\ variant = "part0"
    /\ now = Noon /\ tz = 0
    /\ settings = [openaiApiKey |-> <<>>, ignoreFilePatterns |-> <<>>]
    /\ openai = Null
    /\ saving = 0
    /\ dailySettings = RootDaily
    /\ periodicSettings = NoPeriodic
    /\ files = <<>>
    /\ folders = {}
    /\ run = [r \in Runs |-> IdleRun]

Program == <<variant, now, tz, settings, openai, saving, dailySettings, periodicSettings,
             files, folders, run>>

CallMatchesPattern ==
    /\ call # <<>> /\ ret = <<>>
    /\ ret' = <<matchesPattern(call[1].path, call[1].pattern)>>
    /\ UNCHANGED <<call, Program>>

InitGlob == Quiet /\ call \in {<<in>> : in \in GlobInputs} /\ ret = <<>>
SpecGlob == InitGlob /\ [][CallMatchesPattern]_vars

\* the reference glob: ** is any run of characters, * any run without "/",
\* any other character is itself, and the whole path must match
RECURSIVE GlobFrom(_, _, _, _)
GlobFrom(p, i, s, j) ==
    IF i > Len(p) THEN j > Len(s)
    ELSE IF p[i] = "*" /\ i < Len(p) /\ p[i + 1] = "*"
         THEN GlobFrom(p, i + 2, s, j) \/ (j <= Len(s) /\ GlobFrom(p, i, s, j + 1))
    ELSE IF p[i] = "*"
         THEN GlobFrom(p, i + 1, s, j)
              \/ (j <= Len(s) /\ s[j] # "/" /\ GlobFrom(p, i, s, j + 1))
    ELSE j <= Len(s) /\ s[j] = p[i] /\ GlobFrom(p, i + 1, s, j + 1)

\* C6: matchesPattern(path, pattern) is the reference glob match of the whole path.
C6_MatchesGlob ==
    ret # <<>> => ret[1] = GlobFrom(call[1].pattern, 1, call[1].path, 1)

(***************************************************************************)
(* SpecFormat: formatWeeklyNoteName on templates built from bracket        *)
(* literals and the tokens YYYY, YY, WW, W.                                *)
(***************************************************************************)
MaxSegments == 3

TokenSegments == {<<"Y", "Y", "Y", "Y">>, <<"Y", "Y">>, <<"W", "W">>, <<"W">>}
LiteralTexts == {<<"x">>, <<"W">>, <<"W", "e", "e", "k", " ">>, <<"$", "$">>, <<"$", "&">>}
Segments ==
    [literal : {FALSE}, text : TokenSegments] \cup [literal : {TRUE}, text : LiteralTexts]

RECURSIVE SegmentLists(_)
SegmentLists(n) ==
    IF n = 0 THEN {<<>>}
    ELSE LET shorter == SegmentLists(n - 1)
         IN shorter \cup {Append(w, g) : w \in shorter, g \in Segments}

\* the template text of a list of segments
RECURSIVE TemplateOf(_)
TemplateOf(segs) ==
    IF segs = <<>> THEN <<>>
    ELSE (IF Head(segs).literal THEN <<"[">> \o Head(segs).text \o <<"]">> ELSE Head(segs).text)
         \o TemplateOf(Tail(segs))

CallFormat ==
    /\ call # <<>> /\ ret = <<>>
    /\ ret' = <<formatWeeklyNoteName(TemplateOf(call[1].segments), call[1].week,
                                     call[1].year)>>
    /\ UNCHANGED <<call, Program>>

InitFormat ==
    /\ Quiet
    /\ call \in {<<in>> : in \in [segments : SegmentLists(MaxSegments), week : {5, 23},
                                  year : {2025}]}
    /\ ret = <<>>
SpecFormat == InitFormat /\ [][CallFormat]_vars

\* what the claim expects of a list of segments: every literal's inner text as
\* it stands, every maximal run of tokens with its tokens substituted
RECURSIVE ExpectedName(_, _, _, _)
ExpectedName(segs, span, week, year) ==
    IF segs = <<>> THEN SubstituteTokens(span, week, year)
    ELSE IF Head(segs).literal
         THEN SubstituteTokens(span, week, year) \o Head(segs).text
              \o ExpectedName(Tail(segs), <<>>, week, year)
    ELSE ExpectedName(Tail(segs), span \o Head(segs).text, week, year)

\* C7: the output holds every bracket literal's inner text unchanged, once and
\* in order, between the substituted token spans, and no __LITERAL_n__ marker.
C7_LiteralsRestored ==
    ret # <<>> =>
        /\ ret[1] = ExpectedName(call[1].segments, <<>>, call[1].week, call[1].year)
        /\ IndexOf(ret[1], <<"_", "_", "L", "I", "T", "E", "R", "A", "L", "_">>) = 0
(***************************************************************************)
(* SpecDaily: getDailyNotesForLastWeek of one run over every choice of     *)
(* absent, blank and written notes in the seven-day window.                *)
(***************************************************************************)
FolderDaily == [found |-> TRUE, folder |-> <<"D">>, format |-> <<>>]
DayFirstDaily ==
    [found |-> TRUE, folder |-> <<"D">>,
     format |-> <<"D", "D", "-", "M", "M", "-", "Y", "Y", "Y", "Y">>]

\* the content of the note of the day `back` days before today
NoteText(kind, back) == IF kind = "blank" THEN <<" ", "\n">> ELSE <<"x">> \o ToStr(back)

\* the vault holding, for every day of the window, no note, a blank one or a
\* written one, as `kinds` says (kinds[n] is about the day n - 1 days back)
RECURSIVE WindowVault(_, _, _, _)
WindowVault(ds, t, zone, kinds) ==
    IF kinds = <<>> THEN <<>>
    ELSE LET back == Len(kinds) - 1
             rest == WindowVault(ds, t, zone, SubSeq(kinds, 1, back))
         IN IF kinds[Len(kinds)] = "absent" THEN rest
            ELSE Append(rest, DailyNoteAt(ds, t - back * UnitsPerDay, zone,
                                          NoteText(kinds[Len(kinds)], back)))

InitDaily ==
    /\ variant = "part0"
    /\ now = Noon /\ tz = 0
    /\ settings = [openaiApiKey |-> <<"s">>, ignoreFilePatterns |-> <<>>]
    /\ openai = initializeOpenAI(settings)
    /\ saving = 0
    /\ dailySettings \in {FolderDaily, DayFirstDaily}
    /\ periodicSettings = NoPeriodic
    /\ \E kinds \in [1..7 -> {"absent", "blank", "text"}] :
           files = WindowVault(dailySettings, now, tz, kinds)
    /\ folders = {}
    /\ run = [r \in Runs |-> IdleRun]
    /\ call = <<>> /\ ret = <<>>

NextDaily == Trigger(1) \/ DailyRead(1)

SpecDaily == InitDaily /\ [][NextDaily]_vars

\* the path of the daily note of the day `back` days before the run's today
WindowPath(r, back) ==
    DailyNotePath(PathPattern(DailyFolder(dailySettings),
                              TranslateFormat(DailyFormat(dailySettings))),
                  CivilFromDays(LocalDay(run[r].today, tz) - back))

\* the note of that day exists and its content is non-empty after trimming
Written(r, back) ==
    \E n \in 1..Len(files) : files[n].path = WindowPath(r, back) /\ Trim(files[n].content) # <<>>

\* how many of the days back..6 have a written note
RECURSIVE WrittenFrom(_, _)
WrittenFrom(r, back) ==
    IF back > 6 THEN 0 ELSE (IF Written(r, back) THEN 1 ELSE 0) + WrittenFrom(r, back + 1)

\* C8: the result holds exactly one record per day of today-6 .. today whose
\* note exists with non-blank content, oldest first, and nothing else.
C8_WindowRecords ==
    \A r \in Runs :
        run[r].pc = "dailyDone" =>
            LET notes == run[r].dailyNotes
            IN /\ Len(notes) = WrittenFrom(r, 0)
               /\ \A back \in 0..6 :
                    Written(r, back) =>
                        LET pos == WrittenFrom(r, back)
                            file == files[FileIndex(files, WindowPath(r, back))]
                        IN /\ notes[pos].content = file.content
                           /\ notes[pos].date =
                                DateLabel(file.path, DailyFolder(dailySettings),
                                          DailyFormat(dailySettings),
                                          CivilFromDays(LocalDay(run[r].today, tz) - back))

\* C8 witness: notes written on days 1, 3 and 7 of the window only, three records
C8_Witness ==
    /\ run[1].pc = "dailyDone"
    /\ \A back \in 0..6 : Written(1, back) <=> back \in {6, 4, 0}
    /\ Len(run[1].dailyNotes) = 3
    /\ run[1].dailyNotes[1].content = <<"x", "6">>
    /\ run[1].dailyNotes[3].content = <<"x", "0">>
(***************************************************************************)
(* SpecScan: getUpdatedFilesForLastWeek of one run over vaults whose files *)
(* lie in and out of the excluded folders, before and after the cutoff.    *)
(***************************************************************************)
RootNote == <<"n", ".", "m", "d">>
NestedNote == <<"a", "/", "t", ".", "m", "d">>
WeeklyNote == DefaultWeeklyFolder \o <<"/", "o", ".", "m", "d">>
DailyFolderNote == <<"D", "/", "z", ".", "m", "d">>

Absent == 0 - 1
Cutoff == Noon - 7 * UnitsPerDay

\* the candidate files with the modification times each may have
Candidates ==
    <<[path |-> RootNote, mtimes |-> {Absent, Cutoff, Noon - UnitsPerDay, Noon - 2}],
      [path |-> NestedNote, mtimes |-> {Absent, Cutoff + 1, Noon - 1}],
      [path |-> WeeklyNote, mtimes |-> {Absent, Noon - 1}],
      [path |-> DailyFolderNote, mtimes |-> {Absent, Noon - 1}]>>

RECURSIVE ScanVault(_, _)
ScanVault(pick, n) ==
    IF n = 0 THEN <<>>
    ELSE IF pick[n] = Absent THEN ScanVault(pick, n - 1)
    ELSE Append(ScanVault(pick, n - 1),
                [path |-> Candidates[n].path, content |-> <<"y">>, mtime |-> pick[n]])

PatternLists ==
    {<<>>, <<<<"*", ".", "m", "d">>>>, <<<<>>, <<"a", "/", "*">>>>}

InitScan ==
    /\ variant = "part0"
    /\ now = Noon /\ tz = 0
    /\ settings \in [openaiApiKey : {<<"s">>}, ignoreFilePatterns : PatternLists]
    /\ openai = initializeOpenAI(settings)
    /\ saving = 0
    /\ dailySettings \in {RootDaily, FolderDaily}
    /\ periodicSettings \in {NoPeriodic, [format |-> <<>>, folder |-> <<"P">>, path |-> <<>>]}
    /\ \E pick \in {f \in [1..Len(Candidates) ->
                             UNION {Candidates[n].mtimes : n \in 1..Len(Candidates)}] :
                      \A n \in 1..Len(Candidates) : f[n] \in Candidates[n].mtimes} :
           files = <<DailyNoteAt(dailySettings, now, tz, <<"x">>)>>
                   \o ScanVault(pick, Len(Candidates))
    /\ folders = {}
    /\ run = [r \in Runs |-> IdleRun]
    /\ call = <<>> /\ ret = <<>>

NextScan == Trigger(1) \/ DailyRead(1) \/ AfterDaily(1) \/ ScanStat(1)

SpecScan == InitScan /\ [][NextScan]_vars

Returned(r, path) ==
    {k \in 1..Len(run[r].updatedFiles) : run[r].updatedFiles[k].path = path}

InFolder(path, folder) == StartsWith(path, folder \o <<"/">>)

\* C9: a file has a record if and only if it was modified after now minus seven
\* days, lies neither under the daily-notes folder nor under the weekly folder,
\* and shouldIgnoreFile is false for it; no file has two records.
C9_UpdatedExactly ==
    \A r \in Runs :
        run[r].pc = "scanDone" =>
            \A n \in 1..Len(files) :
                LET path == files[n].path
                    wanted == /\ files[n].mtime > now - 7 * UnitsPerDay
                              /\ ~InFolder(path, DailyFolder(dailySettings))
                              /\ ~InFolder(path, WeeklyFolder(periodicSettings))
                              /\ ~shouldIgnoreFile(settings.ignoreFilePatterns, path)
                IN Cardinality(Returned(r, path)) = (IF wanted THEN 1 ELSE 0)

\* C9 witness: a scan that returned a record, dropped a recent file for its
\* folder alone and dropped a recent file outside both folders for a pattern alone
C9_Witness ==
    /\ run[1].pc = "scanDone"
    /\ run[1].updatedFiles # <<>>
    /\ \E n \in 1..Len(files) :
         /\ files[n].mtime > now - 7 * UnitsPerDay
         /\ ShouldExclude(files[n].path)
         /\ ~shouldIgnoreFile(settings.ignoreFilePatterns, files[n].path)
         /\ Returned(1, files[n].path) = {}
    /\ \E n \in 1..Len(files) :
         /\ files[n].mtime > now - 7 * UnitsPerDay
         /\ ~ShouldExclude(files[n].path)
         /\ shouldIgnoreFile(settings.ignoreFilePatterns, files[n].path)
         /\ Returned(1, files[n].path) = {}

\* C10: the returned records are in descending order of modification time, a
\* strictly later file first, and files of equal time in enumeration order.
C10_SortedByMtime ==
    \A r \in Runs :
        run[r].pc = "scanDone" =>
            \A a, b \in 1..Len(run[r].updatedFiles) :
                a < b =>
                    LET fa == FileIndex(files, run[r].updatedFiles[a].path)
                        fb == FileIndex(files, run[r].updatedFiles[b].path)
                    IN \/ files[fa].mtime > files[fb].mtime
                       \/ (files[fa].mtime = files[fb].mtime /\ fa < fb)

(***************************************************************************)
(* SpecWeek: getWeekNumber on every instant of a range of years.           *)
(***************************************************************************)
MaxYears == 3

\* the range starts with 2025; 2027 begins on a Friday
FirstDay == DaysFromCivil(2025, 1, 1)
EndDay == DaysFromCivil(2025 + MaxYears, 1, 1)
Instants == {day * UnitsPerDay + u : day \in FirstDay..(EndDay - 1), u \in 0..(UnitsPerDay - 1)}

\* getWeekNumber(date), and getWeekNumber of the same time on the following day
CallGetWeekNumber ==
    /\ call # <<>> /\ ret = <<>>
    /\ ret' = <<[week |-> GetWeekNumber(call[1].date),
                 next |-> GetWeekNumber(call[1].date + UnitsPerDay)]>>
    /\ UNCHANGED <<call, Program>>

InitWeek == Quiet /\ call \in {<<[date |-> t]>> : t \in Instants} /\ ret = <<>>
SpecWeek == InitWeek /\ [][CallGetWeekNumber]_vars

\* ISO 8601: the week of a day is the week of the Thursday of its Monday-based
\* week, numbered from the first Thursday of that Thursday's year
IsoThursday(day) == day - ((day + 3) % 7) + 3
IsoYear(day) == CivilFromDays(IsoThursday(day)).y
IsoWeek(day) == (IsoThursday(day) - DaysFromCivil(IsoYear(day), 1, 1)) \div 7 + 1

\* C11: for every date of the range, getWeekNumber is in 1..53, equals the ISO
\* 8601 week number of the (UTC) calendar date, does not decrease from one day
\* to the next within an ISO year and is 1 on the first day of the next one;
\* 2025-05-26 gives week 22.
C11_IsoWeekNumber ==
    ret # <<>> =>
        LET day == UtcDay(call[1].date)
        IN /\ ret[1].week \in 1..53
           /\ ret[1].week = IsoWeek(day)
           /\ IsoYear(day + 1) = IsoYear(day) => ret[1].next >= ret[1].week
           /\ IsoYear(day + 1) # IsoYear(day) => ret[1].next = 1
           /\ day = DaysFromCivil(2025, 5, 26) => ret[1].week = 22

(***************************************************************************)
(* SpecPath: the path of today's daily note for daily-note formats made of *)
(* distinct tokens with a separator between them.                          *)
(***************************************************************************)
MaxTokens == 3

DateTokens == {<<"Y", "Y", "Y", "Y">>, <<"M", "M">>, <<"D", "D">>,
               <<"M", "M", "M", "M">>, <<"M", "M", "M">>}
Separators == {<<"-">>, <<"/">>}

\* token, separator, token, ... with at most n tokens, no token twice
RECURSIVE PartLists(_)
PartLists(n) ==
    IF n = 1 THEN {<<k>> : k \in DateTokens}
    ELSE LET shorter == PartLists(n - 1)
         IN shorter \cup
            UNION {{w \o <<p, k>> : p \in Separators,
                                    k \in DateTokens \ {w[j] : j \in 1..Len(w)}} :
                   w \in shorter}

RECURSIVE FormatOf(_)
FormatOf(parts) == IF parts = <<>> THEN <<>> ELSE Head(parts) \o FormatOf(Tail(parts))

\* the format translation and the substitution of loop index 0
CallDailyPath ==
    /\ call # <<>> /\ ret = <<>>
    /\ ret' = <<PathOfIndex(now, 0)>>
    /\ UNCHANGED <<call, Program>>

InitPath ==
    /\ variant \in {"main", "part0"}
    /\ now = Noon /\ tz = 0
    /\ settings = [openaiApiKey |-> <<>>, ignoreFilePatterns |-> <<>>]
    /\ openai = Null
    /\ saving = 0
    /\ call \in {<<[parts |-> w]>> : w \in PartLists(MaxTokens)}
    /\ dailySettings \in [found : {TRUE}, folder : {<<>>, <<"D">>},
                          format : {FormatOf(call[1].parts)}]
    /\ periodicSettings = NoPeriodic
    /\ files = <<>>
    /\ folders = {}
    /\ run = [r \in Runs |-> IdleRun]
    /\ ret = <<>>
SpecPath == InitPath /\ [][CallDailyPath]_vars

\* what the claim expects of one part of the format
ExpectedPart(part, c) ==
    IF part = <<"Y", "Y", "Y", "Y">> THEN YearStr(c)
    ELSE IF part = <<"M", "M">> THEN MonthStr(c)
    ELSE IF part = <<"D", "D">> THEN DayStr(c)
    ELSE IF part = <<"M", "M", "M", "M">> THEN MonthNameSlot
    ELSE IF part = <<"M", "M", "M">> THEN MonthShortSlot
    ELSE part

RECURSIVE ExpectedDate(_, _)
ExpectedDate(parts, c) ==
    IF parts = <<>> THEN <<>> ELSE ExpectedPart(Head(parts), c) \o ExpectedDate(Tail(parts), c)

\* C12: the path of a day's note is folder + "/" + translated + ".md" (translated
\* + ".md" for an empty folder), where translated has the 4-digit year for YYYY,
\* the 2-digit month for MM, the 2-digit day for DD and each MMMM and MMM whole
\* as its placeholder: MM never consumes part of MMMM or MMM.
C12_LongerTokenFirst ==
    ret # <<>> =>
        LET translated == ExpectedDate(call[1].parts, LocalCivil(now, tz))
        IN ret[1] = IF dailySettings.folder # <<>>
                    THEN dailySettings.folder \o <<"/">> \o translated \o MdExt
                    ELSE translated \o MdExt

(***************************************************************************)
(* SpecName: the default aggregate-note name of main.ts for two runs, the  *)
(* second up to MaxGapDays days after the first, both at 00:00 UTC in UTC. *)
(***************************************************************************)
MaxGapDays == 366

\* the name createWeeklyNoteFile resolves when `now` is call[1].a, and when it is
\* call[1].b
CallFileName ==
    /\ call # <<>> /\ ret = <<>>
    /\ ret' = <<[a |-> WeeklyFileName(variant, periodicSettings, call[1].a, tz),
                 b |-> WeeklyFileName(variant, periodicSettings, call[1].b, tz)]>>
    /\ UNCHANGED <<call, Program>>

InitName ==
    /\ variant = "main"
    /\ now = Noon /\ tz = 0
    /\ settings = [openaiApiKey |-> <<>>, ignoreFilePatterns |-> <<>>]
    /\ openai = Null
    /\ saving = 0
    /\ dailySettings = RootDaily
    /\ periodicSettings = NoPeriodic
    /\ files = <<>>
    /\ folders = {}
    /\ run = [r \in Runs |-> IdleRun]
    /\ call \in {<<[a |-> day * UnitsPerDay, b |-> (day + gap) * UnitsPerDay]>> :
                     day \in FirstDay..(EndDay - 1), gap \in 0..MaxGapDays}
    /\ ret = <<>>
SpecName == InitName /\ [][CallFileName]_vars

\* C14: the default name carries the ISO year of the ISO week, so two dates get
\* the same name exactly when they lie in the same ISO week.
C14_NameCarriesIsoYear ==
    ret # <<>> =>
        LET a == UtcDay(call[1].a)
            b == UtcDay(call[1].b)
        IN /\ ret[1].a = DefaultFileName(IsoWeek(a), IsoYear(a))
           /\ (ret[1].a = ret[1].b) <=> (IsoYear(a) = IsoYear(b) /\ IsoWeek(a) = IsoWeek(b))

====
